---- MODULE Spec2Model ----
(***************************************************************************)
(* A model of the data-loading composables (useLoader, useAsyncLoad), of   *)
(* the synchronisation core (diff, execute), of the remote lister, the     *)
(* local tree scanner, the persisted collections and the content-addressed *)
(* namer of fisschl/scripts.  Each component has its own specification;    *)
(* the variables of the others stay at their idle values.                  *)
(*                                                                         *)
(* Loader part: one loader instance.  `kind` says which composable it is,  *)
(* `hasCache` and `concurrency` are the options the caller passed.  The    *)
(* Vue watcher is modelled with its "pre" flush: a change of the source    *)
(* marks the watcher pending and the callback runs later, once, with the   *)
(* value the computed `params` has then.  The p-limit limiter is a FIFO    *)
(* queue and a count of running tasks; a task it accepted starts in a      *)
(* later step.  A fetcher call is in flight from the step that starts it   *)
(* to the step in which its promise settles.                               *)
(***************************************************************************)
EXTENDS Integers, Sequences, FiniteSets, TLC

\* ------------------------------------------------------------- bounds
NParams == 2          \* parameter contents are 1..NParams
MaxRequests == 3      \* fetch requests (limiter tasks) per behaviour
MaxFailures == 1      \* fetcher calls that fail per behaviour
CacheMax == 1         \* `max` of the caller's LRUCache

VARIABLES
  kind,         \* "useLoader" | "useAsyncLoad"
  hasCache,     \* options.cache was given
  concurrency,  \* 0: options.limit absent; n > 0: options.limit = pLimit(n)
  params,       \* the value of the computed `params`: [ref, val]
  watchOld,     \* the watcher's oldValue: Undefined or [ref, val]
  watchPending, \* the watcher's job is queued
  data,         \* useLoader: data.value; useAsyncLoad: result.value
  isLoading,    \* useLoader: isLoading.value
  cache,        \* the LRU cache, least recently used first: Seq([key, value])
  queue,        \* the limiter's queue of tasks not yet started
  inflight,     \* the fetcher calls whose promise has not settled
  nRequests,    \* number of fetch requests so far (the next task's id - 1)
  rejections,   \* number of promises rejected towards the caller
  last,         \* the step taken last
  \* --- diff engine
  local,        \* the scanned local map: key -> FileEntry or Absent
  remote,       \* the listed remote map: key -> ObjectEntry or Absent
  direction,    \* "mirror-to-remote" | "mirror-to-local"
  plan,         \* the action list diff returned (<<>> before the call)
  diffDone,     \* diff has returned
  \* --- execution controller
  actions,      \* execute's input: the action list
  concurrencyLimit, \* execute's input: the number of slots
  nextAction,   \* index of the first action not yet taken up
  running,      \* the actions in flight: index -> attempt (1 or 2)
  report,       \* the ExecutionReport: [succeeded, failed, skipped]
  \* --- remote object lister
  listPrefix,   \* the prefix argument
  bucket,       \* the provider's objects under the prefix, in its order
  nPages,       \* the number of pages the provider serves
  pageOf,       \* the page each object of `bucket` is on
  continuationToken, \* the function's variable of that name
  remoteFiles,  \* the map being accumulated
  totalObjects, \* the function's variable of that name
  calls,        \* the tokens of the list_objects calls issued, in order
  answered,     \* the number of calls that resolved
  listState,    \* "ready" | "awaiting" | "delay" | "done" | "failed"
  listReturned, \* the map the promise resolved with
  thrown,       \* the error the promise rejected with
  \* --- local tree scanner
  sep,          \* the host's path separator
  tree,         \* the nodes below the scanned root
  unreadable,   \* the directories list_directory fails for
  scanStack,    \* the scanDir calls in progress, outermost first
  files,        \* the map being accumulated
  scanState,    \* "ready" | "listing" | "done" | "failed"
  scanReturned, \* the map the promise resolved with
  scanError,    \* the error the promise rejected with
  \* --- persisted collections
  loadTarget,   \* "plans": initializePlans | "instances": loadS3Instances
  storeDocument, \* what store.get returns for the collection's key
  loadState,    \* "ready" | "reading" | "done" | "failed"
  syncPlans,    \* the store's state.syncPlans
  loadReturned, \* the value loadS3Instances resolved with
  loadError,    \* the error the promise rejected with
  \* --- round trip of a synchronisation
  remoteStore,  \* the objects of the bucket: key -> entry or Absent
  omitsSize,    \* the keys whose size the provider's listings omit
  executed,     \* the indexes of the plan's actions that have been executed
  replan,       \* the action list of the diff after the execution
  roundState,   \* "diff" | "execute" | "done"
  \* --- diff called twice
  again,        \* the action list the second call returned
  diffCalls,    \* the number of calls of diff made
  \* --- content-addressed namer
  hashFiles,    \* the files of the two calls: [path, content]
  hashCall,     \* the call in progress: 1 or 2
  hashState,    \* "create" | "reading" | "done"
  hasher,       \* the bytes the hasher has absorbed
  readPos,      \* the number of bytes the stream has handed out
  hashChunks,   \* the chunk lengths of each call's stream so far
  hashNames,    \* the name each call returned
  \* --- sync-plan store
  savedDocument,   \* what store.save last wrote for the collection's key
  initialDocument, \* the collection as it was persisted at the start
  storeCalls,      \* the calls of the store's actions, in call order
  commands         \* the calls awaiting an answer of the store plugin

loaderVars == <<kind, hasCache, concurrency, params, watchOld, watchPending,
                data, isLoading, cache, queue, inflight, nRequests,
                rejections, last>>

diffVars == <<local, remote, direction, plan, diffDone>>
execVars == <<actions, concurrencyLimit, nextAction, running, report>>
listVars == <<listPrefix, bucket, nPages, pageOf, continuationToken,
              remoteFiles, totalObjects, calls, answered, listState,
              listReturned, thrown>>
scanVars == <<sep, tree, unreadable, scanStack, files, scanState,
              scanReturned, scanError>>
storeVars == <<loadTarget, storeDocument, loadState, syncPlans, loadReturned,
               loadError>>
roundVars == <<remoteStore, omitsSize, executed, replan, roundState>>
twiceVars == <<again, diffCalls>>
hashVars == <<hashFiles, hashCall, hashState, hasher, readPos, hashChunks,
              hashNames>>
planVars == <<savedDocument, initialDocument, storeCalls, commands>>

Undefined == [ref |-> -1, val |-> 0]
NoData == [for |-> 0, id |-> 0]
NoArg == 0
ParamVals == 1..NParams
\* options.limit: absent (0) or pLimit(1), the limiter of the documented use
Limits == {0, 1}

\* Object identities are relative to the watcher: 0 is the object the watcher
\* holds as its oldValue, 1 is an object made since.  cloneDeep gives a new
\* object on every evaluation of the computed.
cloneDeep(v) == [ref |-> 1, val |-> v]
\* The object the watcher got as value is the oldValue of its next run.
Held(p) == [ref |-> 0, val |-> p.val]

isEqualByRef(a, b) == a.ref = b.ref
\* lodash isEqual: structural comparison; undefined equals only undefined.
isEqual(a, b) == a.val = b.val

\* ohash: a digest of the content of the value, not of its identity.
hash(p) == <<"hash", p.val>>

\* The computed cacheKey: cache && hash(params.value).
cacheKey == IF hasCache THEN hash(params) ELSE <<>>

\* ------------------------------------------------------------- LRU cache
RECURSIVE SeqWithout(_, _)
SeqWithout(s, k) ==
  IF s = <<>> THEN <<>>
  ELSE IF Head(s).key = k THEN SeqWithout(Tail(s), k)
  ELSE <<Head(s)>> \o SeqWithout(Tail(s), k)

CacheHas(c, k) == \E i \in 1..Len(c) : c[i].key = k
CacheValue(c, k) == (CHOOSE e \in {c[i] : i \in 1..Len(c)} : e.key = k).value

CacheLookupNever(c, k) == NoData
\* cache.get(key): the stored value, or undefined (NoData).
CacheLookup(c, k) == IF CacheHas(c, k) THEN CacheValue(c, k) ELSE NoData

\* cache.get also makes the entry the most recently used one.
CacheTouch(c, k) ==
  IF CacheHas(c, k)
  THEN SeqWithout(c, k) \o <<[key |-> k, value |-> CacheValue(c, k)]>>
  ELSE c

\* cache.set(key, value): replace or add as most recent, evicting the least
\* recently used entry when the cache is full.
CacheSet(c, k, v) ==
  LET rest == SeqWithout(c, k)
      room == IF Len(rest) >= CacheMax THEN Tail(rest) ELSE rest
  IN  room \o <<[key |-> k, value |-> v]>>

\* ------------------------------------------------------------- limiter
\* A task handed to the limiter (or started at once).  `cause` is the
\* parameter whose change requested it; a refresh has none.
Task(origin, arg) ==
  [id |-> nRequests + 1, origin |-> origin, arg |-> arg,
   cause |-> IF origin = "watch" THEN params.val ELSE NoArg]

CanStartAlways(n) == TRUE
\* p-limit starts a queued task only while activeCount < concurrency.
CanStart(n) == n < concurrency

\* p-limit dequeues in FIFO order.
NextTask(q) == Head(q)

QueueWithout(q, t) == SelectSeq(q, LAMBDA x : x # t)

\* --------------------------------------------------------------- Init
LoaderInit ==
  /\ kind \in {"useLoader", "useAsyncLoad"}
  /\ hasCache \in (IF kind = "useLoader" THEN BOOLEAN ELSE {FALSE})
  /\ concurrency \in (IF kind = "useLoader" THEN Limits ELSE {1})
  /\ params \in {cloneDeep(v) : v \in ParamVals}
  /\ watchOld = Undefined
  /\ watchPending = TRUE
  /\ data = NoData
  /\ isLoading = FALSE
  /\ cache = <<>>
  /\ queue = <<>>
  /\ inflight = {}
  /\ nRequests = 0
  /\ rejections = 0
  /\ last = "init"

constructed == watchOld # Undefined

\* ------------------------------------------------------------ actions
\* The start of fetchData: isLoading.value = true; fetcher(params.value).
\* useAsyncLoad's task calls fetcher(value) with the value its callback got.
BeginFetch(t) ==
  /\ inflight' = inflight \cup
       {[t EXCEPT !.arg = IF kind = "useLoader" THEN params.val ELSE t.arg]}
  /\ isLoading' = IF kind = "useLoader" THEN TRUE ELSE isLoading

\* The watcher's callback (value, oldValue).
Callback(value, oldValue) ==
  IF oldValue # Undefined /\ isEqual(value, oldValue)
  THEN /\ last' = "equal"
       /\ UNCHANGED <<data, isLoading, cache, queue, inflight, nRequests>>
  ELSE IF kind = "useAsyncLoad"
  THEN /\ nRequests < MaxRequests
       /\ queue' = Append(queue, Task("watch", value.val))
       /\ nRequests' = nRequests + 1
       /\ last' = "request"
       /\ UNCHANGED <<data, isLoading, cache, inflight>>
  ELSE IF hasCache /\ CacheLookup(cache, cacheKey) # NoData
  THEN /\ data' = CacheLookup(cache, cacheKey)
       /\ cache' = CacheTouch(cache, cacheKey)
       /\ last' = "hit"
       /\ UNCHANGED <<isLoading, queue, inflight, nRequests>>
  ELSE /\ nRequests < MaxRequests
       /\ nRequests' = nRequests + 1
       /\ last' = "request"
       /\ IF concurrency > 0
          THEN /\ queue' = Append(queue, Task("watch", NoArg))
               /\ UNCHANGED <<inflight, isLoading>>
          ELSE /\ BeginFetch(Task("watch", NoArg))
               /\ UNCHANGED queue
       /\ UNCHANGED <<data, cache>>

\* watchImmediate: the callback runs once, synchronously, while the
\* composable is set up, with oldValue undefined.
Setup ==
  /\ ~constructed
  /\ Callback(params, Undefined)
  /\ watchOld' = Held(params)
  /\ params' = Held(params)
  /\ watchPending' = FALSE
  /\ UNCHANGED <<kind, hasCache, concurrency, rejections>>

\* The caller's params source changes (to another content, or to a new
\* object of the same content); the computed and the watcher are triggered.
SetParams(v) ==
  /\ constructed
  /\ params' = cloneDeep(v)
  /\ watchPending' = TRUE
  /\ last' = "set"
  /\ UNCHANGED <<kind, hasCache, concurrency, watchOld, data, isLoading,
                 cache, queue, inflight, nRequests, rejections>>

\* The scheduler flushes the watcher's job.
WatchFlush ==
  /\ constructed
  /\ watchPending
  /\ Callback(params, watchOld)
  /\ watchOld' = Held(params)
  /\ params' = Held(params)
  /\ watchPending' = FALSE
  /\ UNCHANGED <<kind, hasCache, concurrency, rejections>>

\* refresh(): limit ? await limit(fetchData) : await fetchData().
Refresh ==
  /\ constructed
  /\ kind = "useLoader"
  /\ nRequests < MaxRequests
  /\ nRequests' = nRequests + 1
  /\ last' = "refresh"
  /\ IF concurrency > 0
     THEN /\ queue' = Append(queue, Task("refresh", NoArg))
          /\ UNCHANGED <<inflight, isLoading>>
     ELSE /\ BeginFetch(Task("refresh", NoArg))
          /\ UNCHANGED queue
  /\ UNCHANGED <<kind, hasCache, concurrency, params, watchOld, watchPending,
                 data, cache, rejections>>

\* The limiter starts the task at the head of its queue.
StartNext ==
  /\ queue # <<>>
  /\ CanStart(Cardinality(inflight))
  /\ BeginFetch(NextTask(queue))
  /\ queue' = QueueWithout(queue, NextTask(queue))
  /\ last' = "start"
  /\ UNCHANGED <<kind, hasCache, concurrency, params, watchOld, watchPending,
                 data, cache, nRequests, rejections>>

\* The key under which fetchData stores its result: cacheKey.value, read
\* after the await, when the promise has resolved.
StoreKey(t) == cacheKey

\* The fetcher's promise resolves with the value for the parameter it was
\* called with.
FetchOk(t) ==
  LET result == [for |-> t.arg, id |-> t.id] IN
  /\ t \in inflight
  /\ inflight' = inflight \ {t}
  /\ data' = result
  /\ cache' = IF kind = "useLoader" /\ hasCache
              THEN CacheSet(cache, StoreKey(t), result) ELSE cache
  /\ isLoading' = IF kind = "useLoader" THEN FALSE ELSE isLoading
  /\ last' = "ok"
  /\ UNCHANGED <<kind, hasCache, concurrency, params, watchOld, watchPending,
                 queue, nRequests, rejections>>

LoadingAfterFailureKept == isLoading
\* finally { isLoading.value = false }
LoadingAfterFailure == IF kind = "useLoader" THEN FALSE ELSE isLoading

\* The fetcher's promise rejects: the rejection passes through fetchData
\* (and the limiter) to refresh's caller, or to nobody (unhandled rejection).
FetchFail(t) ==
  /\ t \in inflight
  /\ rejections < MaxFailures
  /\ inflight' = inflight \ {t}
  /\ isLoading' = LoadingAfterFailure
  /\ rejections' = rejections + 1
  /\ last' = "fail"
  /\ UNCHANGED <<kind, hasCache, concurrency, params, watchOld, watchPending,
                 data, cache, queue, nRequests>>

\* ---------------------------------------------------------------------
\* Diff engine (section 4.3)
\* ---------------------------------------------------------------------
KeyOrder == <<"a.txt", "b.txt", "c.txt">>   \* the keys, in lexicographic order
Keys == {KeyOrder[i] : i \in 1..Len(KeyOrder)}
Sizes == {5, 10, 20}
Times == {1, 2}
NoSize == -1                                \* a listing that omits the size
Absent == [size |-> -2, time |-> 0]
Directions == {"mirror-to-remote", "mirror-to-local"}

LocalEntries == [size : Sizes, time : {1}]
RemoteEntries == [size : Sizes \cup {NoSize}, time : Times]

Has(m, k) == m[k] # Absent

UnchangedByTime(l, r) == l.size = r.size /\ l.time = r.time
\* Size equality is the sole change-detection signal.
Unchanged(l, r) == l.size = r.size

Act(kind_, k) == [kind |-> kind_, key |-> k]

\* The action of one key of the union of the two key sets.
Classify(l, r, dir, k) ==
  IF Has(l, k) /\ ~Has(r, k)
  THEN IF dir = "mirror-to-remote" THEN Act("Upload", k)
       ELSE Act("DeleteLocal", k)
  ELSE IF ~Has(l, k) /\ Has(r, k)
  THEN IF dir = "mirror-to-remote" THEN Act("DeleteRemote", k)
       ELSE Act("Download", k)
  ELSE IF Unchanged(l[k], r[k]) THEN Act("Skip", k)
  ELSE IF dir = "mirror-to-remote" THEN Act("Upload", k)
  ELSE Act("Download", k)

IsDeletion(a) == a.kind \in {"DeleteLocal", "DeleteRemote"}

\* The keys of a map, in key order.
KeysOf(m) == SelectSeq(KeyOrder, LAMBDA k : Has(m, k))

\* The union of the key sets: local keys first, then remote-only keys.
UnionKeys(l, r) ==
  KeysOf(l) \o SelectSeq(KeyOrder, LAMBDA k : Has(r, k) /\ ~Has(l, k))

RECURSIVE MapClassify(_, _, _, _)
MapClassify(ks, l, r, dir) ==
  IF ks = <<>> THEN <<>>
  ELSE <<Classify(l, r, dir, Head(ks))>> \o MapClassify(Tail(ks), l, r, dir)

\* diff(local, remote, direction): one action per key of the union, the
\* deletions after all the other actions, each group in key order.
Diff(l, r, dir) ==
  LET all == MapClassify(UnionKeys(l, r), l, r, dir)
  IN  SelectSeq(all, LAMBDA a : ~IsDeletion(a))
        \o SelectSeq(all, LAMBDA a : IsDeletion(a))

DiffInit ==
  /\ local \in [Keys -> LocalEntries \cup {Absent}]
  /\ remote \in [Keys -> RemoteEntries \cup {Absent}]
  /\ direction \in Directions
  /\ plan = <<>>
  /\ diffDone = FALSE

DiffIdle ==
  /\ local = [k \in Keys |-> Absent]
  /\ remote = [k \in Keys |-> Absent]
  /\ direction = "mirror-to-remote"
  /\ plan = <<>>
  /\ diffDone = FALSE

RunDiff ==
  /\ ~diffDone
  /\ plan' = Diff(local, remote, direction)
  /\ diffDone' = TRUE
  /\ UNCHANGED <<local, remote, direction>>

\* ---------------------------------------------------------------------
\* Execution controller (section 4.4)
\* ---------------------------------------------------------------------
MaxActions == 3       \* length of execute's action list
MaxLimit == 2         \* concurrencyLimit is 1..MaxLimit

ActionKinds == {"Upload", "Download", "DeleteLocal", "DeleteRemote", "Skip"}
EmptyReport == [succeeded |-> <<>>, failed |-> <<>>, skipped |-> <<>>]

\* Action lists as diff makes them: one action per key, keys distinct.
ActionLists ==
  UNION {[1..n -> ActionKinds] : n \in 0..MaxActions}

ActionKeys == KeyOrder \o <<"d.txt", "e.txt", "f.txt">>
KeyOfAction(i) == ActionKeys[i]

ExecInit ==
  /\ \E ks \in ActionLists :
       actions = [i \in 1..Len(ks) |-> Act(ks[i], KeyOfAction(i))]
  /\ concurrencyLimit \in 1..MaxLimit
  /\ nextAction = 1
  /\ running = <<>>
  /\ report = EmptyReport

ExecIdle ==
  /\ actions = <<>>
  /\ concurrencyLimit = 1
  /\ nextAction = 1
  /\ running = <<>>
  /\ report = EmptyReport

InFlight == DOMAIN running

SlotFreeAlways(n) == TRUE
\* The semaphore: an action starts only while a slot is free.
SlotFree(n) == n < concurrencyLimit

RecordFailedDropped(rep, k, reason) == rep
RecordFailed(rep, k, reason) ==
  [rep EXCEPT !.failed = Append(@, <<k, reason>>)]
RecordSucceeded(rep, k) == [rep EXCEPT !.succeeded = Append(@, k)]
RecordSkipped(rep, k) == [rep EXCEPT !.skipped = Append(@, k)]

Release(i) == [j \in InFlight \ {i} |-> running[j]]
Occupy(i, attempt) == [j \in InFlight \cup {i} |-> IF j = i THEN attempt ELSE running[j]]

ExecDone == nextAction > Len(actions) /\ InFlight = {}

\* The controller takes up the next action of the list: a Skip is reported
\* at once, any other action takes a slot and its first attempt begins.
StartAction ==
  /\ nextAction <= Len(actions)
  /\ IF actions[nextAction].kind = "Skip"
     THEN /\ report' = RecordSkipped(report, actions[nextAction].key)
          /\ UNCHANGED running
     ELSE /\ SlotFree(Cardinality(InFlight))
          /\ running' = Occupy(nextAction, 1)
          /\ UNCHANGED report
  /\ nextAction' = nextAction + 1
  /\ UNCHANGED <<actions, concurrencyLimit>>

\* An attempt succeeds.
AttemptOk(i) ==
  /\ i \in InFlight
  /\ report' = RecordSucceeded(report, actions[i].key)
  /\ running' = Release(i)
  /\ UNCHANGED <<actions, concurrencyLimit, nextAction>>

\* An attempt that failed transiently is repeated only if it was the first.
MayRetryAlways(attempt) == TRUE
MayRetry(attempt) == attempt = 1

\* The first attempt fails transiently: the action is tried once more, in
\* the slot it holds.
AttemptRetry(i) ==
  /\ i \in InFlight
  /\ MayRetry(running[i])
  /\ running' = Occupy(i, running[i] + 1)
  /\ UNCHANGED <<actions, concurrencyLimit, nextAction, report>>

\* An attempt fails for good: the retry failed, or the failure is not a
\* transient one.
AttemptFail(i, reason) ==
  /\ i \in InFlight
  /\ (reason = "transient") => running[i] = 2
  /\ report' = RecordFailed(report, actions[i].key, reason)
  /\ running' = Release(i)
  /\ UNCHANGED <<actions, concurrencyLimit, nextAction>>

\* ---------------------------------------------------------------------
\* Remote object lister: listAllRemoteFiles (s3-files.ts).  Strings are
\* sequences of characters.  The provider holds the objects of the bucket
\* whose key starts with the prefix, in the order `bucket`, and serves them
\* in `nPages` pages: object i is on page pageOf[i].  A continuation token
\* is modelled by the number of the page it follows (a non-empty string in
\* the program), NoToken is `undefined`.
\* ---------------------------------------------------------------------
MaxObjects == 3       \* objects under the prefix
MaxPages == 3         \* pages the provider splits them into

NoToken == 0
EmptyMap == [k \in {} |-> 0]
NoError == [name |-> "none", token |-> NoToken]

Prefixes == {<< >>, <<"p">>}
Suffixes == {<< >>, <<"a">>, <<"b">>, <<"p", "a">>}

\* The keys the provider can hold under prefix p (no object has an empty key).
ObjectKeys(p) == {p \o s : s \in Suffixes} \ {<< >>}

S3Object(k) == [key |-> k]

\* The ways to order a set of keys.
Orderings(S) ==
  {s \in [1..Cardinality(S) -> S] : \A i, j \in DOMAIN s : i # j => s[i] # s[j]}

\* The ways to cut a listing of n objects into m consecutive pages (a page
\* may be empty).
Pagings(n, m) ==
  {f \in [1..n -> 1..m] : \A i, j \in 1..n : i < j => f[i] <= f[j]}

\* String.prototype.indexOf, 1-based; 0 when p does not occur in s.
IndexOf(s, p) ==
  LET hits == {i \in 1..(Len(s) - Len(p) + 1) : SubSeq(s, i, i + Len(p) - 1) = p}
  IN IF hits = {} THEN 0 ELSE CHOOSE i \in hits : \A j \in hits : i <= j

\* s.replace(p, ''): the first occurrence of p is removed.
Replace(s, p) ==
  LET i == IndexOf(s, p)
  IN IF i = 0 THEN s ELSE SubSeq(s, 1, i - 1) \o SubSeq(s, i + Len(p), Len(s))

\* if (relativeKey)
KeepKeyAlways(relativeKey) == TRUE
KeepKey(relativeKey) == relativeKey # << >>

MapSet(m, k, v) == [x \in DOMAIN m \cup {k} |-> IF x = k THEN v ELSE m[x]]

\* for (const obj of response.objects) { ... remoteFiles.set(relativeKey, obj) }
RECURSIVE MergePage(_, _, _)
MergePage(m, objects, prefix) ==
  IF objects = << >> THEN m
  ELSE LET obj == Head(objects)
           relativeKey == Replace(obj.key, prefix)
       IN MergePage(IF KeepKey(relativeKey) THEN MapSet(m, relativeKey, obj)
                    ELSE m,
                    Tail(objects), prefix)

\* The objects of page n, in the provider's order.
RECURSIVE PageObjects(_, _, _)
PageObjects(objs, pages, n) ==
  IF objs = << >> THEN << >>
  ELSE (IF Head(pages) = n THEN <<Head(objs)>> ELSE << >>)
         \o PageObjects(Tail(objs), Tail(pages), n)

\* The provider's answer to list_objects with continuation token tok.
ListObjectsResponse(tok) ==
  [objects |-> PageObjects(bucket, pageOf, tok + 1),
   is_truncated |-> tok + 1 < nPages,
   next_continuation_token |-> IF tok + 1 < nPages THEN tok + 1 ELSE NoToken]

\* continuation_token: continuationToken
RequestToken(tok) == tok

\* while (continuationToken)
HasMoreNever(tok) == FALSE
HasMore(tok) == tok # NoToken

ListInit ==
  /\ listPrefix \in Prefixes
  /\ \E S \in SUBSET ObjectKeys(listPrefix) :
       /\ Cardinality(S) <= MaxObjects
       /\ bucket \in {[i \in DOMAIN s |-> S3Object(s[i])] : s \in Orderings(S)}
  /\ nPages \in 1..MaxPages
  /\ pageOf \in Pagings(Len(bucket), nPages)
  /\ continuationToken = NoToken
  /\ remoteFiles = EmptyMap
  /\ totalObjects = 0
  /\ calls = << >>
  /\ answered = 0
  /\ listState = "ready"
  /\ listReturned = EmptyMap
  /\ thrown = NoError

ListIdle ==
  /\ listPrefix = << >> /\ bucket = << >> /\ nPages = 1 /\ pageOf = << >>
  /\ continuationToken = NoToken /\ remoteFiles = EmptyMap
  /\ totalObjects = 0 /\ calls = << >> /\ answered = 0
  /\ listState = "idle" /\ listReturned = EmptyMap /\ thrown = NoError

\* await invoke('list_objects', {..., continuation_token: continuationToken})
ListCall ==
  /\ listState = "ready"
  /\ calls' = Append(calls, RequestToken(continuationToken))
  /\ listState' = "awaiting"
  /\ UNCHANGED <<listPrefix, bucket, nPages, pageOf, continuationToken,
                 remoteFiles, totalObjects, answered, listReturned, thrown>>

\* The call resolves: the page is merged, the token is taken over, and the
\* function either waits 100 ms for the next round or returns the map.
ListResponse ==
  /\ listState = "awaiting"
  /\ LET response == ListObjectsResponse(calls[Len(calls)])
         merged == MergePage(remoteFiles, response.objects, listPrefix)
     IN /\ remoteFiles' = merged
        /\ totalObjects' = totalObjects + Len(response.objects)
        /\ continuationToken' = response.next_continuation_token
        /\ IF HasMore(response.next_continuation_token)
             THEN listState' = "delay" /\ UNCHANGED listReturned
             ELSE listState' = "done" /\ listReturned' = merged
  /\ answered' = answered + 1
  /\ UNCHANGED <<listPrefix, bucket, nPages, pageOf, calls, thrown>>

\* await new Promise(resolve => setTimeout(resolve, 100))
ListDelayElapsed ==
  /\ listState = "delay"
  /\ listState' = "ready"
  /\ UNCHANGED <<listPrefix, bucket, nPages, pageOf, continuationToken,
                 remoteFiles, totalObjects, calls, answered, listReturned,
                 thrown>>

\* The call rejects: nothing catches it, the function rejects with the
\* error invoke gave, which knows nothing of the tokens.
InvokeError == [name |-> "Error", token |-> NoToken]
ListReject ==
  /\ listState = "awaiting"
  /\ listState' = "failed"
  /\ thrown' = InvokeError
  /\ UNCHANGED <<listPrefix, bucket, nPages, pageOf, continuationToken,
                 remoteFiles, totalObjects, calls, answered, listReturned>>

\* ---------------------------------------------------------------------
\* Local tree scanner: listFilesRecursiveWithInfo (part_004).  The tree is
\* a sequence of nodes; node i has a parent (0 is the scanned root, else an
\* earlier node that is a directory), a name and the is_dir flag.  The host
\* builds an entry's path from the directory's path, its separator and the
\* name.  On a host whose separator is "/" a name may contain a backslash;
\* on a host whose separator is the backslash it may contain neither.
\* list_directory returns the entries of a directory in node order, and
\* rejects for a directory in `unreadable`.
\* ---------------------------------------------------------------------
MaxNodes == 3         \* files and directories below the root

Separators == {"/", "\\"}
PlainNames == {<<"a">>, <<"b">>}
NamesOn(s) == IF s = "/" THEN PlainNames \cup {<<"b", "\\", "a">>} ELSE PlainNames
RootPath == <<"r">>
RootDir == 0

Trees(s) ==
  UNION {
    {t \in [1..n -> [parent : 0..(n - 1), name : NamesOn(s), is_dir : BOOLEAN]] :
       /\ \A i \in 1..n :
            /\ t[i].parent < i
            /\ t[i].parent # RootDir => t[t[i].parent].is_dir
       /\ \A i, j \in 1..n :
            (i # j /\ t[i].parent = t[j].parent) => t[i].name # t[j].name}
    : n \in 0..MaxNodes}

Dirs(t) == {i \in DOMAIN t : t[i].is_dir}
Files(t) == {i \in DOMAIN t : ~t[i].is_dir}

\* The path the host reports for node i.
RECURSIVE PathOf(_, _, _)
PathOf(t, s, i) ==
  IF i = RootDir THEN RootPath
  ELSE PathOf(t, s, t[i].parent) \o <<s>> \o t[i].name

\* FileInfo (size and last_modified play no part in the scan).
FileInfo(t, s, i) == [path |-> PathOf(t, s, i), is_dir |-> t[i].is_dir]

\* The entries list_directory returns for directory d: its children.
RECURSIVE ChildrenFrom(_, _, _)
ChildrenFrom(t, d, i) ==
  IF i > Len(t) THEN << >>
  ELSE (IF t[i].parent = d THEN <<i>> ELSE << >>) \o ChildrenFrom(t, d, i + 1)
Children(t, d) == ChildrenFrom(t, d, 1)

\* path.split(/[/\\]/).pop()
LastSegment(path) ==
  LET cuts == {i \in 1..Len(path) : path[i] \in {"/", "\\"}}
      last_ == IF cuts = {} THEN 0 ELSE CHOOSE i \in cuts : \A j \in cuts : j <= i
  IN SubSeq(path, last_ + 1, Len(path))

\* relativePath ? `${relativePath}/${name}` : name || ''
EntryRelativePath(relativePath, path) ==
  IF relativePath # << >> THEN relativePath \o <<"/">> \o LastSegment(path)
  ELSE LastSegment(path)

\* entryRelativePath.replace(/\\/g, '/')
NormalizeSeparators(p) == [i \in 1..Len(p) |-> IF p[i] = "\\" THEN "/" ELSE p[i]]

Frame(d, rel) == [dir |-> d, rel |-> rel, pos |-> 1]
Top(st) == st[Len(st)]
Pop(st) == SubSeq(st, 1, Len(st) - 1)
Advance(st) == [st EXCEPT ![Len(st)].pos = @ + 1]

\* The loop of scanDir from the point where a listDirectory call resolved
\* to the next listDirectory call (a subdirectory is entered) or to the
\* end of the outermost scanDir.
RECURSIVE RunScan(_, _, _, _)
RunScan(t, s, st, m) ==
  IF st = << >> THEN [stack |-> st, files |-> m]
  ELSE LET f == Top(st)
           entries == Children(t, f.dir)
       IN IF f.pos > Len(entries) THEN RunScan(t, s, Pop(st), m)
          ELSE LET entry == FileInfo(t, s, entries[f.pos])
                   entryRelativePath == EntryRelativePath(f.rel, entry.path)
               IN IF entry.is_dir
                    THEN [stack |-> Append(Advance(st),
                                           Frame(entries[f.pos], entryRelativePath)),
                          files |-> m]
                    ELSE RunScan(t, s, Advance(st),
                                 MapSet(m, NormalizeSeparators(entryRelativePath),
                                        entry))

ScanInit ==
  /\ sep \in Separators
  /\ tree \in Trees(sep)
  /\ unreadable \in {{}} \cup {{d} : d \in Dirs(tree)}
  /\ scanStack = << >>
  /\ files = EmptyMap
  /\ scanState = "ready"
  /\ scanReturned = EmptyMap
  /\ scanError = NoError

ScanIdle ==
  /\ sep = "/" /\ tree = << >> /\ unreadable = {} /\ scanStack = << >>
  /\ files = EmptyMap /\ scanState = "idle" /\ scanReturned = EmptyMap
  /\ scanError = NoError

\* await scanDir(dirPath): the first listDirectory call is issued.
ScanStart ==
  /\ scanState = "ready"
  /\ scanStack' = <<Frame(RootDir, << >>)>>
  /\ scanState' = "listing"
  /\ UNCHANGED <<sep, tree, unreadable, files, scanReturned, scanError>>

\* The listDirectory call of the innermost scanDir resolves.
ScanListed ==
  /\ scanState = "listing"
  /\ Top(scanStack).dir \notin unreadable
  /\ LET r == RunScan(tree, sep, scanStack, files)
     IN /\ scanStack' = r.stack
        /\ files' = r.files
        /\ IF r.stack = << >>
             THEN scanState' = "done" /\ scanReturned' = r.files
             ELSE scanState' = "listing" /\ UNCHANGED scanReturned
  /\ UNCHANGED <<sep, tree, unreadable, scanError>>

\* The listDirectory call rejects: no scanDir catches it, every pending
\* await rethrows and listFilesRecursiveWithInfo rejects.
ScanListFailed ==
  /\ scanState = "listing"
  /\ Top(scanStack).dir \in unreadable
  /\ scanState' = "failed"
  /\ scanStack' = << >>
  /\ scanError' = InvokeError
  /\ UNCHANGED <<sep, tree, unreadable, files, scanReturned>>

\* ---------------------------------------------------------------------
\* Loading a persisted collection: initializePlans (s3-sync-store.ts) and
\* loadS3Instances (s3-files.ts).  The stored document is what store.get
\* returns: undefined when the key was never saved, some value that is not
\* an array, or an array of items.  An item either has exactly the fields
\* of the schema, or these and an unknown one, or lacks a field, or has a
\* field of the wrong type.
\* ---------------------------------------------------------------------
MaxItems == 2         \* items of a stored array

NoDocument == [tag |-> "undefined", items |-> << >>]
NotAnArray == [tag |-> "object", items |-> << >>]
ItemShapes == {"exact", "extra", "lacking", "mistyped"}
Items == [id : 1..2, shape : ItemShapes]
ArrayOf(items) == [tag |-> "array", items |-> items]
Documents ==
  {NoDocument, NotAnArray}
    \cup {ArrayOf(s) : s \in UNION {[1..n -> Items] : n \in 0..MaxItems}}

\* object({...}) of zod/mini: an item passes when every field of the
\* schema is there with its type; unknown fields are left out of the
\* output.
ItemPasses(item) == item.shape \in {"exact", "extra"}
ItemOutput(item) == [item EXCEPT !.shape = "exact"]

\* array(...).safeParse(data)
safeParse(doc) ==
  IF doc.tag = "array" /\ \A i \in DOMAIN doc.items : ItemPasses(doc.items[i])
    THEN [success |-> TRUE,
          data |-> [i \in DOMAIN doc.items |-> ItemOutput(doc.items[i])]]
    ELSE [success |-> FALSE, data |-> << >>]

ZodError == [name |-> "ZodError", token |-> NoToken]

\* SyncPlansArrayZod.parse(data): the data, or a thrown ZodError.
parseThrows(doc) == ~safeParse(doc).success
parse(doc) == safeParse(doc).data

\* if (!result.success) return []
Fallback(result) == IF ~result.success THEN << >> ELSE result.data

LoadInit ==
  /\ loadTarget \in {"plans", "instances"}
  /\ storeDocument \in Documents
  /\ loadState = "ready"
  /\ syncPlans = << >>
  /\ loadReturned = << >>
  /\ loadError = NoError

LoadIdle ==
  /\ loadTarget = "plans" /\ storeDocument = NoDocument /\ loadState = "idle"
  /\ syncPlans = << >> /\ loadReturned = << >> /\ loadError = NoError

\* store.get(KEY) is issued (after the store itself has loaded).
LoadGet ==
  /\ loadState = "ready"
  /\ loadState' = "reading"
  /\ UNCHANGED <<loadTarget, storeDocument, syncPlans, loadReturned, loadError>>

\* initializePlans after store.get resolved:
\* this.syncPlans = SyncPlansArrayZod.parse(data)
InitializePlansRead ==
  /\ loadState = "reading" /\ loadTarget = "plans"
  /\ IF parseThrows(storeDocument)
       THEN /\ loadState' = "failed"
            /\ loadError' = ZodError
            /\ UNCHANGED syncPlans
       ELSE /\ loadState' = "done"
            /\ syncPlans' = parse(storeDocument)
            /\ UNCHANGED loadError
  /\ UNCHANGED <<loadTarget, storeDocument, loadReturned>>

\* loadS3Instances after store.get resolved.
LoadS3InstancesRead ==
  /\ loadState = "reading" /\ loadTarget = "instances"
  /\ loadState' = "done"
  /\ loadReturned' = Fallback(safeParse(storeDocument))
  /\ UNCHANGED <<loadTarget, storeDocument, syncPlans, loadError>>

\* ---------------------------------------------------------------------
\* Round trip (sections 4.3, 4.4, 8): diff, then every action of the plan
\* executed successfully, then a fresh scan and list, then diff again.
\* `local` is the local tree (a scan reports it as it is); `remoteStore`
\* is what the bucket holds and `remote` the listing of it that diff is
\* given: a listing omits the size of the objects in `omitsSize`.
\* ---------------------------------------------------------------------
RoundSizes == {5, 10}
UploadTime == 2
DownloadTime == 1

RoundLocalEntries == [size : RoundSizes, time : {1}]
RoundRemoteEntries == [size : RoundSizes, time : Times]

\* list: the listed entry of every object, its size left out where the
\* provider's response omits it.
Listing(store, omitted) ==
  [k \in Keys |-> IF Has(store, k) /\ k \in omitted
                    THEN [store[k] EXCEPT !.size = NoSize]
                    ELSE store[k]]

\* What a transfer leaves on the receiving side: the content of the source.
TransferNothing(entry, t) == Absent
Transfer(entry, t) == [size |-> entry.size, time |-> t]

\* The two sides after action a has succeeded.
LocalAfter(a, l, store) ==
  IF a.kind = "Download" THEN [l EXCEPT ![a.key] = Transfer(store[a.key], DownloadTime)]
  ELSE IF a.kind = "DeleteLocal" THEN [l EXCEPT ![a.key] = Absent]
  ELSE l
RemoteAfter(a, l, store) ==
  IF a.kind = "Upload" THEN [store EXCEPT ![a.key] = Transfer(l[a.key], UploadTime)]
  ELSE IF a.kind = "DeleteRemote" THEN [store EXCEPT ![a.key] = Absent]
  ELSE store

RoundInit ==
  /\ local \in [Keys -> RoundLocalEntries \cup {Absent}]
  /\ remoteStore \in [Keys -> RoundRemoteEntries \cup {Absent}]
  /\ omitsSize \in SUBSET Keys
  /\ remote = Listing(remoteStore, omitsSize)
  /\ direction \in Directions
  /\ plan = <<>>
  /\ diffDone = FALSE
  /\ executed = {}
  /\ replan = <<>>
  /\ roundState = "diff"

RoundIdle ==
  /\ remoteStore = [k \in Keys |-> Absent] /\ omitsSize = {}
  /\ executed = {} /\ replan = <<>> /\ roundState = "idle"

\* diff(local, remote, direction)
RoundDiff ==
  /\ roundState = "diff"
  /\ RunDiff
  /\ roundState' = "execute"
  /\ UNCHANGED <<remoteStore, omitsSize, executed, replan>>

\* Action i of the plan is executed and succeeds (in any order: execute
\* may run several at a time).
ExecuteAction(i) ==
  /\ roundState = "execute"
  /\ i \in (1..Len(plan)) \ executed
  /\ local' = LocalAfter(plan[i], local, remoteStore)
  /\ remoteStore' = RemoteAfter(plan[i], local, remoteStore)
  /\ executed' = executed \cup {i}
  /\ UNCHANGED <<remote, direction, plan, diffDone, omitsSize, replan,
                 roundState>>

\* Every action has been executed: a fresh scan and list, and diff again
\* with the same direction.
Rediff ==
  /\ roundState = "execute"
  /\ executed = 1..Len(plan)
  /\ remote' = Listing(remoteStore, omitsSize)
  /\ replan' = Diff(local, remote', direction)
  /\ roundState' = "done"
  /\ UNCHANGED <<local, direction, plan, diffDone, remoteStore, omitsSize,
                 executed>>

\* ---------------------------------------------------------------------
\* diff called twice on the same inputs (sections 4.3, 8).  A map hands
\* out its keys in the order they were inserted, which is no part of its
\* contents (section 4.1: the order of a scan's entries is not
\* significant): each call sees the maps in some enumeration order.
\* ---------------------------------------------------------------------
Enumerations == Orderings(Keys)

\* The keys of map m as the map enumerates them.
EnumeratedKeys(m, order) == SelectSeq(order, LAMBDA k : Has(m, k))

\* The keys put in lexicographic order.
SortedKeysNot(ks) == ks
SortedKeys(ks) ==
  SelectSeq(KeyOrder, LAMBDA k : \E i \in DOMAIN ks : ks[i] = k)

\* diff on two maps as they are enumerated: local keys first, then the
\* remote-only keys, each group sorted; deletions moved to the end.
DiffOfMaps(l, lorder, r, rorder, dir) ==
  LET lk == SortedKeys(EnumeratedKeys(l, lorder))
      rk == SortedKeys(EnumeratedKeys(r, rorder))
      all == MapClassify(lk \o SelectSeq(rk, LAMBDA k : ~Has(l, k)), l, r, dir)
  IN  SelectSeq(all, LAMBDA a : ~IsDeletion(a))
        \o SelectSeq(all, LAMBDA a : IsDeletion(a))

TwiceInit ==
  /\ local \in [Keys -> RoundLocalEntries \cup {Absent}]
  /\ remote \in [Keys -> [size : RoundSizes \cup {NoSize}, time : {1}] \cup {Absent}]
  /\ direction \in Directions
  /\ plan = <<>>
  /\ diffDone = FALSE
  /\ again = <<>>
  /\ diffCalls = 0

TwiceIdle == again = <<>> /\ diffCalls = 0

FirstDiffCall ==
  /\ diffCalls = 0
  /\ \E lorder, rorder \in Enumerations :
       plan' = DiffOfMaps(local, lorder, remote, rorder, direction)
  /\ diffDone' = TRUE
  /\ diffCalls' = 1
  /\ UNCHANGED <<local, remote, direction, again>>

SecondDiffCall ==
  /\ diffCalls = 1
  /\ \E lorder, rorder \in Enumerations :
       again' = DiffOfMaps(local, lorder, remote, rorder, direction)
  /\ diffCalls' = 2
  /\ UNCHANGED <<local, remote, direction, plan, diffDone>>

\* ---------------------------------------------------------------------
\* Content-addressed namer: calculateFileHash (part_007, vite.config.ts).
\* Two calls are made, one after the other, each on a file with a path and
\* a content; the stream hands the content out in chunks of any length.
\* The BLAKE3 hasher is modelled by the bytes it has absorbed and a digest
\* computed from them; the digest is two 5-bit symbols wide.
\* ---------------------------------------------------------------------
MaxBytes == 3         \* length of a file's content
MaxCalls == 3         \* calls of the sync-plan store's actions

Bytes == {0, 1}
Contents == UNION {[1..n -> Bytes] : n \in 0..MaxBytes}
Paths == {"x", "y"}
NoName == << >>
DigestSymbols == 32

\* hash.update(value): the chunk is absorbed after what was absorbed before.
updateForgetful(absorbed, value) == value
update(absorbed, value) == absorbed \o value

\* hash.digest(): a number computed from the absorbed bytes, in order.
RECURSIVE DigestFrom(_, _)
DigestFrom(h, bs) ==
  IF bs = << >> THEN h
  ELSE DigestFrom((h * 7 + Head(bs) + 1) % (DigestSymbols * DigestSymbols), Tail(bs))
digest(absorbed) == DigestFrom(0, absorbed)

\* base32crockford.encode: the symbols of the digest in Crockford's alphabet.
CrockfordAlphabet ==
  <<"0", "1", "2", "3", "4", "5", "6", "7", "8", "9", "A", "B", "C", "D", "E",
    "F", "G", "H", "J", "K", "M", "N", "P", "Q", "R", "S", "T", "V", "W", "X",
    "Y", "Z">>
encode(d) ==
  <<CrockfordAlphabet[(d \div DigestSymbols) + 1],
    CrockfordAlphabet[(d % DigestSymbols) + 1]>>

\* String.prototype.toLowerCase
Upper == <<"A", "B", "C", "D", "E", "F", "G", "H", "J", "K", "M", "N", "P",
           "Q", "R", "S", "T", "V", "W", "X", "Y", "Z">>
Lower == <<"a", "b", "c", "d", "e", "f", "g", "h", "j", "k", "m", "n", "p",
           "q", "r", "s", "t", "v", "w", "x", "y", "z">>
LowerChar(c) ==
  IF \E i \in DOMAIN Upper : Upper[i] = c
    THEN Lower[CHOOSE i \in DOMAIN Upper : Upper[i] = c]
    ELSE c
toLowerCase(s) == [i \in DOMAIN s |-> LowerChar(s[i])]

HashInit ==
  /\ hashFiles \in [1..2 -> [path : Paths, content : Contents]]
  /\ (hashFiles[1].path = hashFiles[2].path)
       => (hashFiles[1].content = hashFiles[2].content)
  /\ hashCall = 1
  /\ hashState = "create"
  /\ hasher = << >>
  /\ readPos = 0
  /\ hashChunks = [c \in 1..2 |-> << >>]
  /\ hashNames = [c \in 1..2 |-> NoName]

HashIdle ==
  /\ hashFiles = [c \in 1..2 |-> [path |-> "x", content |-> << >>]]
  /\ hashCall = 1 /\ hashState = "idle" /\ hasher = << >> /\ readPos = 0
  /\ hashChunks = [c \in 1..2 |-> << >>]
  /\ hashNames = [c \in 1..2 |-> NoName]

FileContent == hashFiles[hashCall].content

\* blake3.create(); Bun.file(filePath).stream().getReader(); the first
\* reader.read() is issued.
HashCreate ==
  /\ hashState = "create"
  /\ hasher' = << >>
  /\ readPos' = 0
  /\ hashState' = "reading"
  /\ UNCHANGED <<hashFiles, hashCall, hashChunks, hashNames>>

\* reader.read() resolves with the next n bytes: hash.update(value).
HashRead(n) ==
  /\ hashState = "reading"
  /\ n \in 1..(Len(FileContent) - readPos)
  /\ hasher' = update(hasher, SubSeq(FileContent, readPos + 1, readPos + n))
  /\ readPos' = readPos + n
  /\ hashChunks' = [hashChunks EXCEPT ![hashCall] = Append(@, n)]
  /\ UNCHANGED <<hashFiles, hashCall, hashState, hashNames>>

\* reader.read() resolves with done: the lock is released and the name is
\* returned; the second call follows the first.
HashReturn ==
  /\ hashState = "reading"
  /\ readPos = Len(FileContent)
  /\ hashNames' = [hashNames EXCEPT ![hashCall] = toLowerCase(encode(digest(hasher)))]
  /\ IF hashCall = 1
       THEN hashCall' = 2 /\ hashState' = "create"
       ELSE hashCall' = hashCall /\ hashState' = "done"
  /\ UNCHANGED <<hashFiles, hasher, readPos, hashChunks>>

\* ---------------------------------------------------------------------
\* Sync-plan store (s3-sync-store.ts): initializePlans and deletePlan,
\* called in any order and overlapping.  The plugin keeps the collection
\* in storeDocument (store.get reads it, store.set writes it) and
\* store.save writes it out to savedDocument.  The plugin answers the
\* commands in the order they were issued.
\* ---------------------------------------------------------------------
PlanIds == 1..2
Plan(id) == [id |-> id, shape |-> "exact"]

\* The collections a store holds: plans with distinct ids.
PlanDocuments ==
  {ArrayOf(s) : s \in {t \in UNION {[1..n -> {Plan(id) : id \in PlanIds}] :
                                      n \in 0..MaxItems} :
                         \A i, j \in DOMAIN t : t[i].id = t[j].id => i = j}}

\* remove(array, (plan) => plan.id === id) of lodash
remove(plans, id) == SelectSeq(plans, LAMBDA item : item.id # id)

Settled(call) == call.pc \in {"resolved", "rejected"}
\* A call; `overlaps` records that an earlier call had not settled when
\* it was made.
StoreCall(op, id, pc) ==
  [op |-> op, id |-> id, pc |-> pc, value |-> << >>,
   overlaps |-> \E c \in DOMAIN storeCalls : ~Settled(storeCalls[c])]

PlanInit ==
  /\ loadTarget = "plans" /\ loadState = "idle"
  /\ loadReturned = << >> /\ loadError = NoError
  /\ storeDocument \in PlanDocuments
  /\ savedDocument = storeDocument
  /\ initialDocument = storeDocument
  /\ syncPlans = << >>
  /\ storeCalls = << >>
  /\ commands = << >>

PlanIdle ==
  /\ savedDocument = NoDocument /\ initialDocument = NoDocument
  /\ storeCalls = << >> /\ commands = << >>

planFrame == <<loadTarget, loadState, loadReturned, loadError, initialDocument>>

\* initializePlans(): store.get(PLANS_STORAGE_KEY) is issued.
CallInitializePlans ==
  /\ Len(storeCalls) < MaxCalls
  /\ storeCalls' = Append(storeCalls, StoreCall("initializePlans", 0, "get"))
  /\ commands' = Append(commands, Len(storeCalls) + 1)
  /\ UNCHANGED <<storeDocument, savedDocument, syncPlans, planFrame>>

\* store.get resolved: this.syncPlans = SyncPlansArrayZod.parse(data)
GetResolved ==
  /\ commands # << >> /\ storeCalls[Head(commands)].pc = "get"
  /\ commands' = Tail(commands)
  /\ IF parseThrows(storeDocument)
       THEN /\ storeCalls' = [storeCalls EXCEPT ![Head(commands)].pc = "rejected"]
            /\ UNCHANGED syncPlans
       ELSE /\ storeCalls' = [storeCalls EXCEPT ![Head(commands)].pc = "resolved"]
            /\ syncPlans' = parse(storeDocument)
  /\ UNCHANGED <<storeDocument, savedDocument, planFrame>>

\* deletePlan(id) up to its await: the plan is removed from memory and
\* persistPlans is called, which waits for the store promise.
CallDeletePlan(id) ==
  /\ Len(storeCalls) < MaxCalls
  /\ syncPlans' = remove(syncPlans, id)
  /\ storeCalls' = Append(storeCalls, StoreCall("deletePlan", id, "then"))
  /\ UNCHANGED <<storeDocument, savedDocument, commands, planFrame>>

\* persistPlans, the callback of store.then:
\* store.set(PLANS_STORAGE_KEY, this.syncPlans) is issued with the
\* plans in memory at that moment.
PersistSet(c) ==
  /\ storeCalls[c].pc = "then"
  /\ storeCalls' = [storeCalls EXCEPT ![c].pc = "set", ![c].value = syncPlans]
  /\ commands' = Append(commands, c)
  /\ UNCHANGED <<storeDocument, savedDocument, syncPlans, planFrame>>

\* store.set resolved: store.save() is issued.
SetResolved ==
  /\ commands # << >> /\ storeCalls[Head(commands)].pc = "set"
  /\ storeDocument' = ArrayOf(storeCalls[Head(commands)].value)
  /\ storeCalls' = [storeCalls EXCEPT ![Head(commands)].pc = "save"]
  /\ commands' = Append(Tail(commands), Head(commands))
  /\ UNCHANGED <<savedDocument, syncPlans, planFrame>>

\* store.save resolved: persistPlans and deletePlan resolve.
SaveResolved ==
  /\ commands # << >> /\ storeCalls[Head(commands)].pc = "save"
  /\ savedDocument' = storeDocument
  /\ storeCalls' = [storeCalls EXCEPT ![Head(commands)].pc = "resolved"]
  /\ commands' = Tail(commands)
  /\ UNCHANGED <<storeDocument, syncPlans, planFrame>>

\* store.set or store.save rejected: nothing catches it, deletePlan
\* rejects.
PersistRejected ==
  /\ commands # << >> /\ storeCalls[Head(commands)].pc \in {"set", "save"}
  /\ storeCalls' = [storeCalls EXCEPT ![Head(commands)].pc = "rejected"]
  /\ commands' = Tail(commands)
  /\ UNCHANGED <<storeDocument, savedDocument, syncPlans, planFrame>>

\* ---------------------------------------------------------------------
\* Specifications
\* ---------------------------------------------------------------------
LoaderIdle ==
  /\ kind = "useLoader" /\ hasCache = FALSE /\ concurrency = 0
  /\ params = cloneDeep(1) /\ watchOld = Undefined /\ watchPending = TRUE
  /\ data = NoData /\ isLoading = FALSE /\ cache = <<>> /\ queue = <<>>
  /\ inflight = {} /\ nRequests = 0 /\ rejections = 0 /\ last = "init"

toolVars ==
  <<listVars, scanVars, storeVars, roundVars, twiceVars, hashVars, planVars>>
vars == <<loaderVars, diffVars, execVars, toolVars>>
syncVars == <<diffVars, execVars>>

\* The components a specification does not exercise stay as they are.
ToolsIdle ==
  /\ ListIdle /\ ScanIdle /\ LoadIdle /\ RoundIdle /\ TwiceIdle /\ HashIdle
  /\ PlanIdle

\* The loaders.
Init == LoaderInit /\ DiffIdle /\ ExecIdle /\ ToolsIdle
Next ==
  \/ Setup /\ UNCHANGED <<syncVars, toolVars>>
  \/ (\E v \in ParamVals : SetParams(v)) /\ UNCHANGED <<syncVars, toolVars>>
  \/ WatchFlush /\ UNCHANGED <<syncVars, toolVars>>
  \/ Refresh /\ UNCHANGED <<syncVars, toolVars>>
  \/ StartNext /\ UNCHANGED <<syncVars, toolVars>>
  \/ (\E t \in inflight : FetchOk(t)) /\ UNCHANGED <<syncVars, toolVars>>
  \/ (\E t \in inflight : FetchFail(t)) /\ UNCHANGED <<syncVars, toolVars>>
Spec == Init /\ [][Next]_vars

\* The same loader under the most orderly scheduling: the watcher's job is
\* flushed before any limiter or fetch continuation that follows the change
\* of the source.  Every behaviour of SpecPrompt is a behaviour of Spec.
NextPrompt ==
  \/ Setup /\ UNCHANGED <<syncVars, toolVars>>
  \/ (\E v \in ParamVals : SetParams(v)) /\ UNCHANGED <<syncVars, toolVars>>
  \/ WatchFlush /\ UNCHANGED <<syncVars, toolVars>>
  \/ Refresh /\ UNCHANGED <<syncVars, toolVars>>
  \/ ~watchPending /\ StartNext /\ UNCHANGED <<syncVars, toolVars>>
  \/ ~watchPending /\ (\E t \in inflight : FetchOk(t)) /\ UNCHANGED <<syncVars, toolVars>>
  \/ ~watchPending /\ (\E t \in inflight : FetchFail(t)) /\ UNCHANGED <<syncVars, toolVars>>
SpecPrompt == Init /\ [][NextPrompt]_vars

\* diff, applied to every pair of maps over the keys.
InitDiff == DiffInit /\ LoaderIdle /\ ExecIdle /\ ToolsIdle
NextDiff == RunDiff /\ UNCHANGED <<loaderVars, execVars, toolVars>>
SpecDiff == InitDiff /\ [][NextDiff]_vars

\* execute, applied to every action list.
ExecStep ==
  \/ StartAction /\ UNCHANGED <<loaderVars, diffVars, toolVars>>
  \/ (\E i \in InFlight : AttemptOk(i))
       /\ UNCHANGED <<loaderVars, diffVars, toolVars>>
  \/ (\E i \in InFlight : AttemptRetry(i))
       /\ UNCHANGED <<loaderVars, diffVars, toolVars>>
  \/ (\E i \in InFlight : \E reason \in {"transient", "permanent"} :
        AttemptFail(i, reason)) /\ UNCHANGED <<loaderVars, diffVars, toolVars>>
InitExec == ExecInit /\ LoaderIdle /\ DiffIdle /\ ToolsIdle
SpecExec == InitExec /\ [][ExecStep]_vars

\* listAllRemoteFiles, applied to every bucket, paging and prefix.
notListVars ==
  <<loaderVars, syncVars, scanVars, storeVars, roundVars, twiceVars, hashVars,
    planVars>>
notScanVars ==
  <<loaderVars, syncVars, listVars, storeVars, roundVars, twiceVars, hashVars,
    planVars>>
notStoreVars ==
  <<loaderVars, syncVars, listVars, scanVars, roundVars, twiceVars, hashVars,
    planVars>>
notTwiceVars ==
  <<loaderVars, execVars, listVars, scanVars, storeVars, roundVars, hashVars,
    planVars>>
notHashVars ==
  <<loaderVars, syncVars, listVars, scanVars, storeVars, roundVars, twiceVars,
    planVars>>
SyncIdle == LoaderIdle /\ DiffIdle /\ ExecIdle /\ RoundIdle /\ TwiceIdle
InitList ==
  ListInit /\ SyncIdle /\ ScanIdle /\ LoadIdle /\ HashIdle /\ PlanIdle
NextList ==
  \/ ListCall /\ UNCHANGED notListVars
  \/ ListResponse /\ UNCHANGED notListVars
  \/ ListDelayElapsed /\ UNCHANGED notListVars
  \/ ListReject /\ UNCHANGED notListVars
SpecList == InitList /\ [][NextList]_vars
\* The event loop runs every continuation that is ready: a call that was
\* issued settles, a timer that was set fires.
SpecListFair == SpecList /\ WF_vars(NextList)

\* listFilesRecursiveWithInfo, applied to every tree on either host.
InitScan ==
  ScanInit /\ SyncIdle /\ ListIdle /\ LoadIdle /\ HashIdle /\ PlanIdle
NextScan ==
  \/ ScanStart /\ UNCHANGED notScanVars
  \/ ScanListed /\ UNCHANGED notScanVars
  \/ ScanListFailed /\ UNCHANGED notScanVars
SpecScan == InitScan /\ [][NextScan]_vars

\* initializePlans and loadS3Instances, applied to every stored document.
InitLoad ==
  LoadInit /\ SyncIdle /\ ListIdle /\ ScanIdle /\ HashIdle /\ PlanIdle
NextLoad ==
  \/ LoadGet /\ UNCHANGED notStoreVars
  \/ InitializePlansRead /\ UNCHANGED notStoreVars
  \/ LoadS3InstancesRead /\ UNCHANGED notStoreVars
SpecLoad == InitLoad /\ [][NextLoad]_vars

\* The round trip, from every pair of sides.
restVars ==
  <<loaderVars, execVars, listVars, scanVars, storeVars, twiceVars, hashVars,
    planVars>>
InitRound ==
  /\ RoundInit /\ LoaderIdle /\ ExecIdle /\ ListIdle /\ ScanIdle /\ LoadIdle
  /\ TwiceIdle /\ HashIdle /\ PlanIdle
NextRound ==
  \/ RoundDiff /\ UNCHANGED restVars
  \/ (\E i \in 1..Len(plan) : ExecuteAction(i)) /\ UNCHANGED restVars
  \/ Rediff /\ UNCHANGED restVars
SpecRound == InitRound /\ [][NextRound]_vars

\* diff called twice, on every pair of maps in every enumeration order.
InitTwice ==
  /\ TwiceInit /\ LoaderIdle /\ ExecIdle /\ ListIdle /\ ScanIdle /\ LoadIdle
  /\ RoundIdle /\ HashIdle /\ PlanIdle
NextTwice ==
  \/ FirstDiffCall /\ UNCHANGED notTwiceVars
  \/ SecondDiffCall /\ UNCHANGED notTwiceVars
SpecTwice == InitTwice /\ [][NextTwice]_vars

\* calculateFileHash, called on every pair of files with every chunking.
InitHash ==
  HashInit /\ SyncIdle /\ ListIdle /\ ScanIdle /\ LoadIdle /\ PlanIdle
NextHash ==
  \/ HashCreate /\ UNCHANGED notHashVars
  \/ (\E n \in 1..MaxBytes : HashRead(n)) /\ UNCHANGED notHashVars
  \/ HashReturn /\ UNCHANGED notHashVars
SpecHash == InitHash /\ [][NextHash]_vars

\* The sync-plan store, from every persisted collection of plans.
notPlanVars ==
  <<loaderVars, syncVars, listVars, scanVars, roundVars, twiceVars, hashVars>>
InitStore == PlanInit /\ SyncIdle /\ ListIdle /\ ScanIdle /\ HashIdle
NextStore ==
  \/ CallInitializePlans /\ UNCHANGED notPlanVars
  \/ GetResolved /\ UNCHANGED notPlanVars
  \/ (\E id \in PlanIds : CallDeletePlan(id)) /\ UNCHANGED notPlanVars
  \/ (\E c \in DOMAIN storeCalls : PersistSet(c)) /\ UNCHANGED notPlanVars
  \/ SetResolved /\ UNCHANGED notPlanVars
  \/ SaveResolved /\ UNCHANGED notPlanVars
  \/ PersistRejected /\ UNCHANGED notPlanVars
SpecStore == InitStore /\ [][NextStore]_vars

\* ---------------------------------------------------------------------
\* Properties of the loaders (checked under Spec)
\* ---------------------------------------------------------------------
\* No fetch is requested, queued or in flight and the watcher has run.
Quiescent ==
  constructed /\ ~watchPending /\ queue = <<>> /\ inflight = {}

\* A step in which the watcher's callback runs.
CallbackStep == watchPending /\ ~watchPending'

\* No fetch is requested in this step.
NoFetchIssued ==
  nRequests' = nRequests /\ queue' = queue /\ inflight' = inflight

FifoOrder ==
  /\ \A i, j \in 1..Len(queue) : (i < j) => queue[i].id < queue[j].id
  /\ \A t \in inflight : \A i \in 1..Len(queue) : t.id < queue[i].id

\* C1 as stated: every loader instance, whatever its options, has at most
\* one fetcher call in flight and starts the queued ones in FIFO order.
C1_SingleFlightEveryInstance ==
  Cardinality(inflight) <= 1 /\ FifoOrder

\* C1 amended: a useAsyncLoad instance, and a useLoader instance whose limit
\* option is a limiter of concurrency 1, has at most one fetcher call in
\* flight; a fetch requested meanwhile waits in the queue and the queue is
\* served in the order of the requests.
C1_SingleFlightBehindGate ==
  (concurrency = 1) => (Cardinality(inflight) <= 1 /\ FifoOrder)

C1_Witness ==
  /\ kind = "useLoader" /\ concurrency = 1
  /\ Cardinality(inflight) = 1 /\ Len(queue) = 2

\* C2: every cache entry stored under hash(P) holds a value the fetcher
\* returned for P.
C2_CacheEntryTaggedWithItsParam ==
  \A i \in 1..Len(cache) : cache[i].key = hash([val |-> cache[i].value.for])

\* C3: once every fetch has resolved successfully, the displayed value is
\* the value for the latest observed parameter.
C3_LatestParamDisplayed ==
  (Quiescent /\ rejections = 0 /\ concurrency = 1) => data.for = params.val

\* C7: in useLoader, when the callback runs for a parameter that is not
\* deep-equal to the previous one and the cache holds an entry under its
\* hash, the stored value becomes the displayed data and no fetch is issued.
C7_CacheHitNoFetch ==
  [][ ( /\ CallbackStep
        /\ kind = "useLoader" /\ hasCache
        /\ params.val # watchOld.val
        /\ CacheHas(cache, hash(params)) )
      => ( /\ data' = CacheValue(cache, hash(params))
           /\ NoFetchIssued ) ]_vars

C7_Witness ==
  /\ last = "hit" /\ kind = "useLoader"
  /\ data = CacheValue(cache, hash(params))

\* C8: every refresh requests exactly one fetch, whatever the cache holds,
\* and when that fetch succeeds its result is the displayed data and the
\* cache entry of the parameter it was fetched for.
C8_RefreshFetchesAndReplaces ==
  [][ /\ (last' = "refresh") =>
           /\ nRequests' = nRequests + 1
           /\ Len(queue') + Cardinality(inflight')
                = Len(queue) + Cardinality(inflight) + 1
      /\ \A t \in inflight :
           (t.origin = "refresh" /\ t \notin inflight' /\ last' = "ok") =>
             /\ data' = [for |-> t.arg, id |-> t.id]
             /\ hasCache =>
                  /\ CacheHas(cache', hash([val |-> t.arg]))
                  /\ CacheValue(cache', hash([val |-> t.arg]))
                       = [for |-> t.arg, id |-> t.id] ]_vars

\* C9: a parameter update that is deep-equal to the one the watcher saw
\* before issues no fetch, so the two updates cause at most one fetch; no
\* run of the callback issues more than one.
C9_DeepEqualUpdateNoFetch ==
  [][ /\ (CallbackStep /\ params.val = watchOld.val) => NoFetchIssued
      /\ CallbackStep => nRequests' <= nRequests + 1 ]_vars

C9_Witness ==
  last = "equal" /\ params.val = watchOld.val /\ nRequests = 1

UnionOfKeys == {k \in Keys : local[k] # Absent \/ remote[k] # Absent}
PlanIndexes(k) == {i \in 1..Len(plan) : plan[i].key = k}
PlanKind(k) == plan[CHOOSE i \in PlanIndexes(k) : TRUE].kind

ExampleLocal ==
  [k \in Keys |-> IF k = "a.txt" THEN [size |-> 10, time |-> 1]
                  ELSE IF k = "b.txt" THEN [size |-> 20, time |-> 1]
                  ELSE Absent]
ExampleRemote ==
  [k \in Keys |-> IF k = "b.txt" THEN [size |-> 20, time |-> 2]
                  ELSE IF k = "c.txt" THEN [size |-> 5, time |-> 1]
                  ELSE Absent]

\* C4: diff emits exactly one action for every key of the union of the two
\* key sets and none for another key; under mirror-to-remote a local-only
\* key gives Upload, a remote-only key DeleteRemote, a key of both maps Skip
\* when the sizes are equal (whatever the timestamps) and Upload when they
\* differ; the example of section 8 gives Upload(a.txt), Skip(b.txt),
\* DeleteRemote(c.txt).
C4_DiffClassifiesEveryKey ==
  diffDone =>
    /\ \A k \in Keys :
         Cardinality(PlanIndexes(k)) = IF k \in UnionOfKeys THEN 1 ELSE 0
    /\ \A i \in 1..Len(plan) : plan[i].key \in UnionOfKeys
    /\ (direction = "mirror-to-remote") =>
         \A k \in UnionOfKeys :
           PlanKind(k) =
             IF remote[k] = Absent THEN "Upload"
             ELSE IF local[k] = Absent THEN "DeleteRemote"
             ELSE IF local[k].size = remote[k].size THEN "Skip"
             ELSE "Upload"
    /\ ( /\ local = ExampleLocal /\ remote = ExampleRemote
         /\ direction = "mirror-to-remote" ) =>
         plan = << [kind |-> "Upload", key |-> "a.txt"],
                   [kind |-> "Skip", key |-> "b.txt"],
                   [kind |-> "DeleteRemote", key |-> "c.txt"] >>

C4_Witness ==
  /\ diffDone /\ direction = "mirror-to-remote"
  /\ local = ExampleLocal /\ remote = ExampleRemote
  /\ Len(plan) = 3

\* ---------------------------------------------------------------------
\* Properties of execute (checked under SpecExec)
\* ---------------------------------------------------------------------
Outcomes(k) ==
  Cardinality({i \in 1..Len(report.succeeded) : report.succeeded[i] = k})
  + Cardinality({i \in 1..Len(report.failed) : report.failed[i][1] = k})
  + Cardinality({i \in 1..Len(report.skipped) : report.skipped[i] = k})

ReportSize ==
  Len(report.succeeded) + Len(report.failed) + Len(report.skipped)

\* C5: the number of actions in flight never exceeds concurrencyLimit; with
\* concurrencyLimit = 1 an action is in flight only when every action
\* before it, its retry included, has resolved.
C5_BoundedInFlight ==
  /\ Cardinality(DOMAIN running) <= concurrencyLimit
  /\ (concurrencyLimit = 1) =>
       \A i \in DOMAIN running : \A j \in 1..(i - 1) :
         j \notin DOMAIN running /\ Outcomes(actions[j].key) = 1

C5_Witness ==
  /\ concurrencyLimit = 1 /\ Len(actions) = 3
  /\ DOMAIN running = {2} /\ running[2] = 2
  /\ nextAction = 3

StripPrefix(k, p) == SubSeq(k, Len(p) + 1, Len(k))

AllObjects == {bucket[i] : i \in DOMAIN bucket}

\* What one unpaginated listing of the same objects gives.
Unpaginated == MergePage(EmptyMap, bucket, listPrefix)

\* C11: the returned map's key set is the set of non-empty prefix-stripped
\* keys of the objects of all pages, however the provider pages and orders
\* them, which is the key set of one unpaginated listing; no object whose
\* key equals the prefix is in the map.
C11_KeySetIndependentOfPaging ==
  (listState = "done") =>
    /\ DOMAIN listReturned
         = {StripPrefix(o.key, listPrefix) : o \in AllObjects} \ {<< >>}
    /\ DOMAIN listReturned = DOMAIN Unpaginated
    /\ \A k \in DOMAIN listReturned : listReturned[k].key # listPrefix

C11_Witness ==
  /\ listState = "done" /\ nPages = 3 /\ answered = 3
  /\ S3Object(listPrefix) \in AllObjects /\ listPrefix # << >>
  /\ pageOf = <<1, 2, 3>>
  /\ Cardinality(DOMAIN listReturned) = 2

\* C12: when the listing call of a page fails, the function fails as a
\* whole, returning no map, with a RemoteListError that carries the
\* continuation token of the last page fetched successfully.
C12_FailureCarriesResumeToken ==
  (listState = "failed") =>
    /\ listReturned = EmptyMap
    /\ thrown.name = "RemoteListError"
    /\ thrown.token = continuationToken

\* The calls so far carry no token, then the tokens of the pages in turn.
CallsFollowTokens ==
  \A i \in 1..Len(calls) :
    calls[i] = IF i = 1 THEN NoToken
               ELSE ListObjectsResponse(calls[i - 1]).next_continuation_token

\* A call is issued only when every earlier one has been answered: the
\* only call that can be outstanding is the last one.
OneCallAtATime ==
  /\ Len(calls) - answered \in {0, 1}
  /\ (listState = "awaiting") => (Len(calls) = answered + 1)
  /\ (listState \in {"ready", "delay", "done"}) => (Len(calls) = answered)

\* C19: the listing calls are issued one after another, the first without
\* a token and each later one with the token of the previous response; the
\* function returns at the first response without a token, after exactly
\* as many calls as the provider serves pages, and it does end (by
\* returning, or by failing when a call fails).
C19_SequentialCallsThenStop ==
  /\ [](CallsFollowTokens /\ OneCallAtATime /\ Len(calls) <= nPages)
  /\ []((listState = "done") => (Len(calls) = nPages /\ answered = nPages))
  /\ <>(listState \in {"done", "failed"})

C19_Witness ==
  /\ listState = "done" /\ nPages = 3 /\ calls = <<NoToken, 1, 2>>
  /\ totalObjects = 3

\* ---------------------------------------------------------------------
\* Properties of the local tree scanner (checked under SpecScan)
\* ---------------------------------------------------------------------
\* The names on the way from the root to node i, joined by "/".
RECURSIVE RelativePath(_, _)
RelativePath(t, i) ==
  IF t[i].parent = RootDir THEN t[i].name
  ELSE RelativePath(t, t[i].parent) \o <<"/">> \o t[i].name

\* Every directory on the way from the root to node i can be listed.
RECURSIVE Reachable(_, _)
Reachable(t, i) ==
  \/ t[i].parent = RootDir
  \/ (t[i].parent \notin unreadable /\ Reachable(t, t[i].parent))

\* C13: the returned map has exactly one entry per regular file of the
\* tree, under the file's path relative to the root written with "/", no
\* key contains a backslash, and no directory has an entry.
C13_OneEntryPerFile ==
  (scanState = "done") =>
    /\ DOMAIN scanReturned = {RelativePath(tree, i) : i \in Files(tree)}
    /\ Cardinality(DOMAIN scanReturned) = Cardinality(Files(tree))
    /\ \A i \in Files(tree) :
         scanReturned[RelativePath(tree, i)] = FileInfo(tree, sep, i)
    /\ \A k \in DOMAIN scanReturned :
         /\ \A c \in 1..Len(k) : k[c] # "\\"
         /\ ~scanReturned[k].is_dir

\* The same statement for the trees in which no name contains a backslash,
\* on either host: this one holds.
ScanCorrectOnPlainNames ==
  (\A i \in DOMAIN tree : tree[i].name \in PlainNames) => C13_OneEntryPerFile

\* C14: a subdirectory that cannot be listed does not abort the scan: the
\* scan returns a map with an entry for every file of every directory that
\* can be listed.
C14_UnreadableSubtreeSkipped ==
  (unreadable # {} /\ scanState \in {"done", "failed"}) =>
    /\ scanState = "done"
    /\ \A i \in Files(tree) :
         Reachable(tree, i) =>
           \E k \in DOMAIN scanReturned : scanReturned[k] = FileInfo(tree, sep, i)

\* ---------------------------------------------------------------------
\* Properties of the persisted collections (checked under SpecLoad)
\* ---------------------------------------------------------------------
\* The document is an array whose items all satisfy the schema.
ValidDocument(doc) ==
  doc.tag = "array" /\ \A i \in DOMAIN doc.items : ItemPasses(doc.items[i])

\* The collection the load gave its caller.
Yielded == IF loadTarget = "plans" THEN syncPlans ELSE loadReturned

\* C15: a load of a missing or invalid document ends without an error and
\* yields the empty collection; a load of a valid document yields the
\* document as it is stored.
C15_InvalidDocumentYieldsEmpty ==
  (loadState \in {"done", "failed"}) =>
    /\ loadState = "done" /\ loadError = NoError
    /\ Yielded = IF ValidDocument(storeDocument) THEN storeDocument.items
                 ELSE << >>

\* ---------------------------------------------------------------------
\* Properties of the round trip (checked under SpecRound)
\* ---------------------------------------------------------------------
OnlySkips(as) == \A i \in 1..Len(as) : as[i].kind = "Skip"

\* C16 as stated: from any local and remote maps, once every action of the
\* plan has been executed, the diff of a fresh scan and list holds only
\* Skip actions.
C16_RoundTripConverges ==
  (roundState = "done") => OnlySkips(replan)

\* C16 amended: the same, for a provider whose listings report the size of
\* every object.
C16_RoundTripConvergesWithSizes ==
  (roundState = "done" /\ omitsSize = {}) => OnlySkips(replan)

C16_Witness ==
  /\ roundState = "done" /\ omitsSize = {}
  /\ Len(plan) = 3 /\ \A i \in 1..3 : plan[i].kind # "Skip"
  /\ \E i \in 1..3 : plan[i].kind = "DeleteRemote"
  /\ Len(replan) = 2 /\ OnlySkips(replan)

\* ---------------------------------------------------------------------
\* Properties of repeated diff calls (checked under SpecTwice)
\* ---------------------------------------------------------------------
DeletionsLast(as) ==
  \A i, j \in 1..Len(as) : (i < j /\ IsDeletion(as[i])) => IsDeletion(as[j])

FailsTransiently(i) ==
  /\ Len(report'.failed) = Len(report.failed) + 1
  /\ report'.failed[Len(report'.failed)] = <<actions[i].key, "transient">>

\* C18: an action is attempted at most twice.  It starts with its first
\* attempt and only if it has no outcome yet (an action that has succeeded
\* is not run again); the only other attempt is the one retry that follows
\* a transient failure of the first attempt, and that step records no
\* outcome; when the action leaves the controller it has exactly one
\* outcome, and that outcome is a transient failure only if it was the
\* retry that failed.
C18_RetryExactlyOnce ==
  [][ \A i \in 1..Len(actions) :
        /\ (i \in InFlight') => running'[i] \in {1, 2}
        /\ (i \notin InFlight /\ i \in InFlight') =>
             /\ running'[i] = 1
             /\ Outcomes(actions[i].key) = 0
        /\ (i \in InFlight /\ i \in InFlight' /\ running'[i] # running[i]) =>
             /\ running[i] = 1 /\ running'[i] = 2
             /\ report' = report
        /\ (i \in InFlight /\ i \notin InFlight') =>
             /\ Outcomes(actions[i].key)' = 1
             /\ FailsTransiently(i) => running[i] = 2 ]_vars

C18_Witness ==
  /\ Len(actions) = 3 /\ concurrencyLimit = 2
  /\ report.succeeded = <<actions[1].key, actions[2].key>>
  /\ DOMAIN running = {3} /\ running[3] = 2

\* ---------------------------------------------------------------------
\* Properties of the namer (checked under SpecHash)
\* ---------------------------------------------------------------------
\* The name of a content hashed in one piece.
NameOf(content) == toLowerCase(encode(digest(content)))

\* C20: the name a call returns is the name of the file's content, whatever
\* the path and the chunks of the stream; so two files with the same bytes,
\* and the same file hashed again, get the same name.
C20_SameContentSameName ==
  /\ \A c \in 1..2 :
       (hashNames[c] # NoName) => hashNames[c] = NameOf(hashFiles[c].content)
  /\ (hashState = "done" /\ hashFiles[1].content = hashFiles[2].content)
       => hashNames[1] = hashNames[2]

C20_Witness ==
  /\ hashState = "done"
  /\ hashFiles[1].path # hashFiles[2].path
  /\ hashFiles[1].content = <<1, 0, 1>> /\ hashFiles[2].content = <<1, 0, 1>>
  /\ hashChunks[1] = <<3>> /\ hashChunks[2] = <<1, 1, 1>>
  /\ hashNames[1] = hashNames[2] /\ hashNames[1] = <<"3", "b">>

\* ---------------------------------------------------------------------
\* Sync-plan store: memory and storage
\* ---------------------------------------------------------------------
\* No call of a store action is in progress.
NoActionInProgress == \A c \in DOMAIN storeCalls : Settled(storeCalls[c])
InitializeCalled ==
  \E c \in DOMAIN storeCalls : storeCalls[c].op = "initializePlans"
DeletedIds ==
  {storeCalls[c].id : c \in {d \in DOMAIN storeCalls :
                               storeCalls[d].op = "deletePlan"}}
\* The persisted collection, and the plans deletePlan was not called for.
Persisted == parse(savedDocument)
Remaining == SelectSeq(initialDocument.items, LAMBDA item : item.id \notin DeletedIds)

\* C21: once initializePlans has been called and no store action is in
\* progress, the plans in memory are the persisted collection, and these
\* are the plans of the start without the deleted ones, in their order;
\* whatever the interleaving and whether or not persisting failed.
C21_MemoryEqualsPersisted ==
  (InitializeCalled /\ NoActionInProgress) =>
    /\ syncPlans = Persisted
    /\ syncPlans = Remaining

\* The same for initializePlans followed by calls of deletePlan, each made
\* after the call before it has settled, and no command of the plugin
\* failing.
C21_SequentialCallsAgree ==
  (/\ InitializeCalled /\ NoActionInProgress
   /\ storeCalls[1].op = "initializePlans"
   /\ \A c \in DOMAIN storeCalls :
        storeCalls[c].pc = "resolved" /\ ~storeCalls[c].overlaps) =>
    /\ syncPlans = Persisted
    /\ syncPlans = Remaining

\* ---------------------------------------------------------------------
\* Loaders: the parameter a fetch is made with
\* ---------------------------------------------------------------------
\* The fetcher was called with the parameter whose change requested t.
CalledWithCause(t) == t.origin = "watch" => t.arg = t.cause

\* C22: every fetch started because the parameter changed to P calls the
\* fetcher with P, also when it waited in the limiter's queue.
C22_FetchCalledWithItsParam == \A t \in inflight : CalledWithCause(t)

\* The same for the loaders whose fetch takes the watcher's value or never
\* waits: useAsyncLoad, and useLoader without a limit.
C22_UnqueuedFetchCalledWithItsParam ==
  (kind = "useAsyncLoad" \/ concurrency = 0) =>
    \A t \in inflight : CalledWithCause(t)
====
